---- MODULE Spec2Model ----
(***************************************************************************)
(* A model of the butterfish session wrapper (butterfish/butterfish.go):    *)
(* wrapCommand, the readerToChannel adapters, the TTY sanitizer, and the   *)
(* goroutines wrapCommand starts; and of the ButterfishCtx, made with      *)
(* initLLM and completed by initVectorIndex.  The multiplexer, the IPC     *)
(* link and the peer receive loop are called by wrapCommand but defined in *)
(* files that are not part of the sources at hand; they are modelled from  *)
(* spec.md.                                                                *)
(***************************************************************************)
EXTENDS Integers, Sequences, FiniteSets, TLC

(***************************************************************************)
(* Bounds of the model.                                                    *)
(***************************************************************************)
\* Length of the read buffer of an adapter (1024*16 in the code, scaled down).
BufSize == 2
\* Longest source the stand-alone adapter harness reads.
MaxSrcLen == 5
\* Number of Injected Input messages the peer may send in a session.
MaxPeerMsgs == 1
\* Longest chunk handed to the sanitizer, the fixed samples apart.
MaxChunkLen == 4
\* Number of goroutines that call initVectorIndex on one ButterfishCtx.
NumCallers == 2
\* Number of calls each of them makes.
MaxCalls == 2

(***************************************************************************)
(* Characters.  A byte chunk is a sequence of characters; a character is a *)
(* one-character string, or the name of a control character.               *)
(***************************************************************************)
Digits == {"0", "1", "2", "3", "4", "5", "6", "7", "8", "9"}

Lower ==
  {"a", "b", "c", "d", "e", "f", "g", "h", "i", "j", "k", "l", "m",
   "n", "o", "p", "q", "r", "s", "t", "u", "v", "w", "x", "y", "z"}

Upper ==
  {"A", "B", "C", "D", "E", "F", "G", "H", "I", "J", "K", "L", "M",
   "N", "O", "P", "Q", "R", "S", "T", "U", "V", "W", "X", "Y", "Z"}

Punct ==
  {" ", "!", "#", "$", "%", "&", "(", ")", "*", "+", ",", "-", ".", "/",
   ":", ";", "<", "=", ">", "?", "@", "[", "]", "^", "_", "{", "|", "}",
   "~"}

\* ESC is U+001B, CSI is U+009B, BEL is U+0007; CR, LF, TAB as usual.
Controls == {"ESC", "CSI", "BEL", "CR", "LF", "TAB"}

\* A chunk is bytes, and a byte that is not part of a valid UTF-8 encoding
\* ("BAD") is read as the rune U+FFFD ("FFFD"), which is a printable symbol.
RuneError == "FFFD"

\* unicode.IsPrint on the characters above: letters, digits, punctuation,
\* symbols and the ASCII space; no control character.
IsPrint(r) == r \in Digits \cup Lower \cup Upper \cup Punct \cup {RuneError}

(***************************************************************************)
(* ansiPattern, matched the way the regexp package of Go matches:          *)
(* leftmost first, and among the matches at one place the one a            *)
(* backtracking matcher finds first.  Every piece of the pattern is an     *)
(* operator that returns, for a start position i (the index of the next    *)
(* unread character), the sequence of end positions in the order the       *)
(* matcher prefers them.                                                   *)
(***************************************************************************)
\* [\u001B\u009B]
Introducer == {"ESC", "CSI"}
\* [[\]()#;?]
Intermediate == {"[", "]", "(", ")", "#", ";", "?"}
\* [a-zA-Z\d]
AlNum == Lower \cup Upper \cup Digits
\* [\dA-PRZcf-ntqry=><~]
FinalByte ==
  Digits
    \cup {"A", "B", "C", "D", "E", "F", "G", "H", "I", "J", "K", "L", "M",
          "N", "O", "P", "R", "Z"}
    \cup {"c", "f", "g", "h", "i", "j", "k", "l", "m", "n", "t", "q", "r", "y"}
    \cup {"=", ">", "<", "~"}

\* The number of consecutive characters of class C from position i, at most max.
RECURSIVE RunLen(_, _, _, _)
RunLen(s, i, C, max) ==
  IF max = 0 \/ i > Len(s) \/ s[i] \notin C
    THEN 0
    ELSE 1 + RunLen(s, i + 1, C, max - 1)

\* <<hi, hi-1, ..., lo>>: a greedy repetition prefers the longest run.
Down(hi, lo) == [k \in 1 .. (hi - lo + 1) |-> hi - k + 1]

\* The ends of F from each of `ends`, in order.
FlatMap(ends, F(_)) ==
  LET f[k \in 0 .. Len(ends)] ==
        IF k = 0 THEN <<>> ELSE f[k - 1] \o F(ends[k])
  IN  f[Len(ends)]

\* C* (greedy)
StarEnds(s, i, C) == Down(i + RunLen(s, i, C, Len(s)), i)

\* C{lo,4} (greedy)
CountedEnds(s, i, C, lo) ==
  LET n == RunLen(s, i, C, 4)
  IN  IF n < lo THEN <<>> ELSE Down(i + n, i + lo)

\* one character of class C
OneEnds(s, i, C) == IF i <= Len(s) /\ s[i] \in C THEN <<i + 1>> ELSE <<>>

\* (?:;[a-zA-Z\d]*)*
RECURSIVE SemiAlNumStar(_, _)
SemiAlNumStar(s, i) ==
  LET item(p) == StarEnds(s, p, AlNum)
      once == FlatMap(OneEnds(s, i, {";"}), item)
      more(p) == SemiAlNumStar(s, p)
  IN  FlatMap(once, more) \o <<i>>

\* (?:;\d{0,4})*
RECURSIVE SemiDigitsStar(_, _)
SemiDigitsStar(s, i) ==
  LET item(p) == CountedEnds(s, p, Digits, 0)
      once == FlatMap(OneEnds(s, i, {";"}), item)
      more(p) == SemiDigitsStar(s, p)
  IN  FlatMap(once, more) \o <<i>>

\* (?:(?:[a-zA-Z\d]*(?:;[a-zA-Z\d]*)*)?\u0007)
OscEnds(s, i) ==
  LET tail(p) == SemiAlNumStar(s, p)
      group == FlatMap(StarEnds(s, i, AlNum), tail)
      bel(p) == OneEnds(s, p, {"BEL"})
  IN  FlatMap(group \o <<i>>, bel)

\* (?:(?:\d{1,4}(?:;\d{0,4})*)?[\dA-PRZcf-ntqry=><~])
CsiEnds(s, i) ==
  LET tail(p) == SemiDigitsStar(s, p)
      group == FlatMap(CountedEnds(s, i, Digits, 1), tail)
      final(p) == OneEnds(s, p, FinalByte)
  IN  FlatMap(group \o <<i>>, final)

\* The whole pattern from position i: the ends of its matches, best first.
ansiPattern(s, i) ==
  LET body(p) == OscEnds(s, p) \o CsiEnds(s, p)
      inter(p) == FlatMap(StarEnds(s, p, Intermediate), body)
  IN  FlatMap(OneEnds(s, i, Introducer), inter)

\* ansiRegexp.ReplaceAllString(str, ""): every match removed, left to right.
RECURSIVE StripFrom(_, _)
StripFrom(s, i) ==
  IF i > Len(s)
    THEN <<>>
    ELSE LET m == ansiPattern(s, i)
         IN  IF m # <<>>
               THEN StripFrom(s, m[1])
               ELSE <<s[i]>> \o StripFrom(s, i + 1)

\* A stripANSI that removes nothing.
stripANSIKeepsAll(str) == str

stripANSI(str) == StripFrom(str, 1)

\* A filter that lets ESC through.
RECURSIVE filterNonPrintableKeepsESC(_)
filterNonPrintableKeepsESC(s) ==
  IF s = <<>>
    THEN <<>>
    ELSE LET r == IF Head(s) = "BAD" THEN RuneError ELSE Head(s)
             keep == r \in {"LF", "TAB", "ESC"} \/ IsPrint(r)
         IN  (IF keep THEN <<r>> ELSE <<>>)
               \o filterNonPrintableKeepsESC(Tail(s))

\* A filter without the case for newline and tab.
RECURSIVE filterNonPrintableDropsTab(_)
filterNonPrintableDropsTab(s) ==
  IF s = <<>>
    THEN <<>>
    ELSE LET r == IF Head(s) = "BAD" THEN RuneError ELSE Head(s)
         IN  (IF IsPrint(r) THEN <<r>> ELSE <<>>)
               \o filterNonPrintableDropsTab(Tail(s))

\* strings.Map with the filter: newline and tab kept, other runes kept when
\* printable and dropped otherwise.  strings.Map decodes an invalid byte as
\* U+FFFD and writes the rune the filter returns for it.
RECURSIVE filterNonPrintable(_)
filterNonPrintable(s) ==
  IF s = <<>>
    THEN <<>>
    ELSE LET r == IF Head(s) = "BAD" THEN RuneError ELSE Head(s)
             keep == r \in {"LF", "TAB"} \/ IsPrint(r)
         IN  (IF keep THEN <<r>> ELSE <<>>) \o filterNonPrintable(Tail(s))

sanitizeTTYData(data) == filterNonPrintable(stripANSI(data))

(***************************************************************************)
(* The session: wrapCommand and the goroutines it starts.                  *)
(***************************************************************************)
\* The channels of byte chunks wrapCommand makes.
Channels == {"parentIn", "childOut", "remoteIn"}
\* The channels fed by readerToChannel: os.Stdin and the pty.
Adapters == {"parentIn", "childOut"}

\* What the operator types during a session.
OperatorInput == <<"l", "s">>
\* What the wrapped command prints.
ChildOutput == <<"h", "CR">>
\* The payload of an Injected Input message.
PeerInput == <<"p">>
\* The modes the real terminal may be in when wrapCommand is called.
TermModes == {"cooked", "cbreak"}

VARIABLES
  pc,           \* where wrapCommand is
  defers,       \* the deferred calls of wrapCommand, the last one on top
  retVal,       \* what wrapCommand returns: "none" until it does
  termMode,     \* the mode of the real terminal
  oldState,     \* the mode term.MakeRaw saved
  restoreCount, \* number of term.Restore calls
  ptmx,         \* the pty: "none", "open" or "closed"
  child,        \* the wrapped command: "none", "running" or "exited"
  exitCode,     \* its exit code, once exited
  subscribed,   \* signal.Notify(ch, SIGWINCH) is in force
  ch,           \* the signal channel: [buf, closed]
  lsnPc,        \* the resize listener: "idle", "range" or "done"
  lateResize,   \* pty.InheritSize was called on the closed pty
  cancelled,    \* ctx is done
  rdPc,         \* each readerToChannel: "idle", "read", "send", "close", "done"
  rdMsg,        \* the chunk each adapter is sending
  chClosed,     \* number of close() calls on each channel
  source,       \* the whole stream of each adapter's reader
  pending,      \* the part of it that is not read yet
  srcEnd,       \* "open", or the error that ended the stream
  readLog,      \* what each Read call returned, in order
  peerPc,       \* the peer receive loop: "idle", "recv", "send", "done"
  peerMsg,      \* the chunk the receive loop is sending
  peerLeft,     \* messages the peer may still send
  linkBroken,   \* the IPC connection is lost
  muxState,     \* "none", "RUNNING", "DRAINING" or "TERMINATED"
  retired,      \* the channels the multiplexer no longer selects on
  exitCause,    \* why the multiplexer left RUNNING
  closedSeen,   \* number of times the multiplexer saw each channel closed
  ptyIn,        \* the writes to the pty input: [src, data]
  termOut,      \* the writes to the real terminal
  linkSent,     \* the messages sent on the IPC link: [kind, data]
  got,          \* the chunks the stand-alone harness received
  sanInput,     \* the chunk handed to sanitizeTTYData
  clean,        \* what sanitizeTTYData returned for it: <<"none">> before
  again,        \* what sanitizeTTYData returned for `clean`
  butterfishConfig, \* the ButterfishConfig: [OpenAIToken, LLMClient]
  ctxPc,        \* the constructor: "idle", "new", "ready" or "failed"
  LLMClient,    \* the LLMClient field of the ButterfishCtx
  llmErr,       \* the error initLLM returned
  InConsoleMode, \* the field of the ButterfishCtx
  VectorIndex,  \* the field of the ButterfishCtx: 0 is nil, else an index
  built,        \* number of indexes NewDiskCachedEmbeddingIndex made
  loaded,       \* the indexes whose LoadPaths succeeded
  ivPc,         \* each caller of initVectorIndex: where its call is
  ivIndex,      \* the local variable `index` of each call
  ivRet,        \* what each caller's calls returned, in order
  ivSaw         \* this.VectorIndex when each caller's last call returned

mainVars == <<pc, defers, retVal>>
termVars == <<termMode, oldState, restoreCount>>
ptyVars == <<ptmx, child, exitCode>>
sigVars == <<subscribed, ch, lsnPc, lateResize>>
rdVars == <<rdPc, rdMsg, chClosed, source, pending, srcEnd, readLog>>
peerVars == <<peerPc, peerMsg, peerLeft, linkBroken>>
muxVars == <<muxState, retired, exitCause, closedSeen>>
outVars == <<ptyIn, termOut, linkSent>>
sanVars == <<sanInput, clean, again>>
ctxVars ==
  <<butterfishConfig, ctxPc, LLMClient, llmErr, InConsoleMode, VectorIndex,
    built, loaded, ivPc, ivIndex, ivRet, ivSaw>>
libVars == <<sanVars, ctxVars>>

vars ==
  <<mainVars, termVars, ptyVars, sigVars, cancelled, rdVars, peerVars,
    muxVars, outVars, got, libVars>>

Min(a, b) == IF a < b THEN a ELSE b

\* The state before wrapCommand is called, but for pc, the adapters and the
\* streams.
QuietSession ==
  /\ defers = <<>>
  /\ retVal = "none"
  /\ oldState = "none"
  /\ restoreCount = 0
  /\ ptmx = "none"
  /\ child = "none"
  /\ exitCode = -1
  /\ subscribed = FALSE
  /\ ch = [buf |-> 0, closed |-> FALSE]
  /\ lsnPc = "idle"
  /\ lateResize = FALSE
  /\ cancelled = FALSE
  /\ rdMsg = [a \in Adapters |-> <<>>]
  /\ chClosed = [c \in Channels |-> 0]
  /\ srcEnd = [a \in Adapters |-> "open"]
  /\ readLog = [a \in Adapters |-> <<>>]
  /\ peerPc = "idle"
  /\ peerMsg = <<>>
  /\ peerLeft = MaxPeerMsgs
  /\ linkBroken = FALSE
  /\ muxState = "none"
  /\ retired = {}
  /\ exitCause = "none"
  /\ closedSeen = [c \in Channels |-> 0]
  /\ ptyIn = <<>>
  /\ termOut = <<>>
  /\ linkSent = <<>>
  /\ got = <<>>

\* No chunk was handed to the sanitizer.
SanIdle ==
  /\ sanInput = <<>>
  /\ clean = <<"none">>
  /\ again = <<"none">>

\* No ButterfishCtx is being made.
CtxIdle ==
  /\ butterfishConfig = [OpenAIToken |-> "", LLMClient |-> "nil"]
  /\ ctxPc = "idle"
  /\ LLMClient = "nil"
  /\ llmErr = "nil"
  /\ InConsoleMode = FALSE
  /\ VectorIndex = 0
  /\ built = 0
  /\ loaded = {}
  /\ ivPc = <<>>
  /\ ivIndex = <<>>
  /\ ivRet = <<>>
  /\ ivSaw = <<>>

Quiet == QuietSession /\ SanIdle /\ CtxIdle

\* wrapCommand is not called at all.
NoSession ==
  /\ QuietSession
  /\ pc = "none"
  /\ termMode = "cooked"
  /\ rdPc = [a \in Adapters |-> "idle"]
  /\ source = [a \in Adapters |-> <<>>]
  /\ pending = source

\* RunConsoleClient calls wrapCommand: the terminal is in some mode, the
\* operator and the command have something to say.
Init ==
  /\ Quiet
  /\ pc = "start"
  /\ rdPc = [a \in Adapters |-> "idle"]
  /\ termMode \in TermModes
  /\ source = [a \in Adapters |->
                 IF a = "parentIn" THEN OperatorInput ELSE ChildOutput]
  /\ pending = source

(***************************************************************************)
(* wrapCommand, statement by statement.                                    *)
(***************************************************************************)
Push(stack, f) == Append(stack, f)
Top(stack) == stack[Len(stack)]
Pop(stack) == SubSeq(stack, 1, Len(stack) - 1)

\* WrapStart with the subscription made before the error is looked at.
WrapStartSubscribesFirst ==
  /\ pc = "start"
  /\ subscribed' = TRUE
  /\ \E ok \in BOOLEAN :
       IF ok
         THEN /\ ptmx' = "open"
              /\ child' = "running"
              /\ defers' = Push(defers, "ptmxClose")
              /\ pc' = "notify"
              /\ retVal' = retVal
         ELSE /\ retVal' = "err"
              /\ pc' = "returned"
              /\ UNCHANGED <<ptmx, child, defers>>
  /\ UNCHANGED <<exitCode, termVars, ch, lsnPc, lateResize, cancelled, rdVars,
                 peerVars, muxVars, outVars, got, libVars>>

\* pty.Start(c): on an error wrapCommand returns it at once; otherwise the
\* command runs under a new pty and the close of the pty is deferred.
WrapStart ==
  /\ pc = "start"
  /\ \E ok \in BOOLEAN :
       IF ok
         THEN /\ ptmx' = "open"
              /\ child' = "running"
              /\ defers' = Push(defers, "ptmxClose")
              /\ pc' = "notify"
              /\ retVal' = retVal
         ELSE /\ retVal' = "err"
              /\ pc' = "returned"
              /\ UNCHANGED <<ptmx, child, defers>>
  /\ UNCHANGED <<exitCode, termVars, sigVars, cancelled, rdVars, peerVars,
                 muxVars, outVars, got, libVars>>

\* ch := make(chan os.Signal, 1); signal.Notify(ch, SIGWINCH); go listener.
WrapNotify ==
  /\ pc = "notify"
  /\ subscribed' = TRUE
  /\ lsnPc' = "range"
  /\ pc' = "initResize"
  /\ UNCHANGED <<defers, retVal, termVars, ptyVars, ch, lateResize, cancelled,
                 rdVars, peerVars, muxVars, outVars, got, libVars>>

\* ch <- syscall.SIGWINCH, which waits while the buffer of one is full, and
\* the deferred signal.Stop(ch); close(ch).
WrapInitResize ==
  /\ pc = "initResize"
  /\ ch.buf < 1
  /\ ch' = [ch EXCEPT !.buf = @ + 1]
  /\ defers' = Push(defers, "signalStop")
  /\ pc' = "makeRaw"
  /\ UNCHANGED <<retVal, termVars, ptyVars, subscribed, lsnPc, lateResize,
                 cancelled, rdVars, peerVars, muxVars, outVars, got, libVars>>

\* WrapMakeRaw without the deferred term.Restore.
WrapMakeRawNoDefer ==
  /\ pc = "makeRaw"
  /\ \E ok \in BOOLEAN :
       IF ok
         THEN /\ oldState' = termMode
              /\ termMode' = "raw"
              /\ pc' = "spawn"
              /\ UNCHANGED <<retVal, defers>>
         ELSE /\ retVal' = "panic"
              /\ pc' = "unwind"
              /\ UNCHANGED <<oldState, termMode, defers>>
  /\ UNCHANGED <<restoreCount, ptyVars, sigVars, cancelled, rdVars, peerVars,
                 muxVars, outVars, got, libVars>>

\* term.MakeRaw: on an error wrapCommand panics; otherwise the terminal is
\* raw, its former mode is saved and term.Restore is deferred.
WrapMakeRaw ==
  /\ pc = "makeRaw"
  /\ \E ok \in BOOLEAN :
       IF ok
         THEN /\ oldState' = termMode
              /\ termMode' = "raw"
              /\ defers' = Push(defers, "restore")
              /\ pc' = "spawn"
              /\ retVal' = retVal
         ELSE /\ retVal' = "panic"
              /\ pc' = "unwind"
              /\ UNCHANGED <<oldState, termMode, defers>>
  /\ UNCHANGED <<restoreCount, ptyVars, sigVars, cancelled, rdVars, peerVars,
                 muxVars, outVars, got, libVars>>

\* The three channels are made and the three goroutines started.
WrapSpawn ==
  /\ pc = "spawn"
  /\ rdPc' = [a \in Adapters |-> "read"]
  /\ peerPc' = "recv"
  /\ pc' = "announce"
  /\ UNCHANGED <<defers, retVal, termVars, ptyVars, sigVars, cancelled, rdMsg,
                 chClosed, source, pending, srcEnd, readLog, peerMsg,
                 peerLeft, linkBroken, muxVars, outVars, got, libVars>>

\* WrapAnnounce without the send.
WrapAnnounceNothing ==
  /\ pc = "announce"
  /\ muxState' = "RUNNING"
  /\ pc' = "mux"
  /\ UNCHANGED <<defers, retVal, termVars, ptyVars, sigVars, cancelled,
                 rdVars, peerVars, retired, exitCause, closedSeen, outVars,
                 got, libVars>>

\* client.SendWrappedCommand(strings.Join(command, " ")), then the call of
\* wrappingMultiplexer.
WrapAnnounce ==
  /\ pc = "announce"
  /\ linkSent' = Append(linkSent, [kind |-> "announce", data |-> <<>>])
  /\ muxState' = "RUNNING"
  /\ pc' = "mux"
  /\ UNCHANGED <<defers, retVal, termVars, ptyVars, sigVars, cancelled, rdVars,
                 peerVars, retired, exitCause, closedSeen, ptyIn, termOut,
                 got, libVars>>

\* WrapReturnNil that first waits for the three goroutines to end.
WrapReturnNilWaits ==
  /\ pc = "mux"
  /\ muxState = "TERMINATED"
  /\ \A a \in Adapters : rdPc[a] = "done"
  /\ peerPc = "done"
  /\ retVal' = "nil"
  /\ pc' = "unwind"
  /\ UNCHANGED <<defers, termVars, ptyVars, sigVars, cancelled, rdVars,
                 peerVars, muxVars, outVars, got, libVars>>

\* return nil, once wrappingMultiplexer has returned.
WrapReturnNil ==
  /\ pc = "mux"
  /\ muxState = "TERMINATED"
  /\ retVal' = "nil"
  /\ pc' = "unwind"
  /\ UNCHANGED <<defers, termVars, ptyVars, sigVars, cancelled, rdVars,
                 peerVars, muxVars, outVars, got, libVars>>

\* defer func() { _ = term.Restore(int(os.Stdin.Fd()), oldState) }()
DeferRestore ==
  /\ pc = "unwind"
  /\ defers # <<>>
  /\ Top(defers) = "restore"
  /\ termMode' = oldState
  /\ restoreCount' = restoreCount + 1
  /\ defers' = Pop(defers)
  /\ UNCHANGED <<pc, retVal, oldState, ptyVars, sigVars, cancelled, rdVars,
                 peerVars, muxVars, outVars, got, libVars>>

\* The deferred call without close(ch).
DeferSignalStopNoClose ==
  /\ pc = "unwind"
  /\ defers # <<>>
  /\ Top(defers) = "signalStop"
  /\ subscribed' = FALSE
  /\ defers' = Pop(defers)
  /\ UNCHANGED <<pc, retVal, termVars, ptyVars, ch, lsnPc, lateResize,
                 cancelled, rdVars, peerVars, muxVars, outVars, got, libVars>>

\* defer func() { signal.Stop(ch); close(ch) }()
DeferSignalStop ==
  /\ pc = "unwind"
  /\ defers # <<>>
  /\ Top(defers) = "signalStop"
  /\ subscribed' = FALSE
  /\ ch' = [ch EXCEPT !.closed = TRUE]
  /\ defers' = Pop(defers)
  /\ UNCHANGED <<pc, retVal, termVars, ptyVars, lsnPc, lateResize, cancelled,
                 rdVars, peerVars, muxVars, outVars, got, libVars>>

\* defer func() { _ = ptmx.Close() }()
DeferPtmxClose ==
  /\ pc = "unwind"
  /\ defers # <<>>
  /\ Top(defers) = "ptmxClose"
  /\ ptmx' = "closed"
  /\ defers' = Pop(defers)
  /\ UNCHANGED <<pc, retVal, termVars, child, exitCode, sigVars, cancelled,
                 rdVars, peerVars, muxVars, outVars, got, libVars>>

\* The deferred calls are done: control is back in the caller, or, after a
\* panic nobody recovers, the process aborts.
WrapReturn ==
  /\ pc = "unwind"
  /\ defers = <<>>
  /\ pc' = IF retVal = "panic" THEN "aborted" ELSE "returned"
  /\ UNCHANGED <<defers, retVal, termVars, ptyVars, sigVars, cancelled, rdVars,
                 peerVars, muxVars, outVars, got, libVars>>

\* The process is gone after an abort; the goroutines run otherwise.
Alive == pc # "aborted"

(***************************************************************************)
(* The resize listener and the signals.                                    *)
(***************************************************************************)
\* The operating system raises SIGWINCH: the signal package sends it on ch
\* without waiting, so that it is dropped when the buffer of one is full.
SigWinch ==
  /\ Alive
  /\ subscribed
  /\ ch' = [ch EXCEPT !.buf = Min(1, @ + 1)]
  /\ UNCHANGED <<mainVars, termVars, ptyVars, subscribed, lsnPc, lateResize,
                 cancelled, rdVars, peerVars, muxVars, outVars, got, libVars>>

\* for range ch { pty.InheritSize(os.Stdin, ptmx) }
ListenerResize ==
  /\ Alive
  /\ lsnPc = "range"
  /\ ch.buf > 0
  /\ ch' = [ch EXCEPT !.buf = @ - 1]
  /\ lateResize' = (lateResize \/ ptmx # "open")
  /\ UNCHANGED <<mainVars, termVars, ptyVars, subscribed, lsnPc, cancelled,
                 rdVars, peerVars, muxVars, outVars, got, libVars>>

\* The range ends when ch is closed and empty.
ListenerExit ==
  /\ Alive
  /\ lsnPc = "range"
  /\ ch.closed
  /\ ch.buf = 0
  /\ lsnPc' = "done"
  /\ UNCHANGED <<mainVars, termVars, ptyVars, subscribed, ch, lateResize,
                 cancelled, rdVars, peerVars, muxVars, outVars, got, libVars>>

\* The context of RunConsoleClient is cancelled from outside.
ForceCancel ==
  /\ pc \notin {"returned", "aborted"}
  /\ ~cancelled
  /\ cancelled' = TRUE
  /\ UNCHANGED <<mainVars, termVars, ptyVars, sigVars, rdVars, peerVars,
                 muxVars, outVars, got, libVars>>

(***************************************************************************)
(* readerToChannel and the streams it reads.                               *)
(***************************************************************************)
\* The readers are os.Stdin and the pty, both an *os.File.
Reader(a) == IF a = "parentIn" THEN "stdin" ELSE "ptmx"

\* What input.Read(buf) may return once it returns.  A read of a file
\* returns the bytes that have arrived, at most len(buf) of them, and no
\* error; or no byte and an error: end of file on the standard input, an
\* I/O error, the error of a pty whose other side is gone or which
\* wrapCommand has closed.  How many bytes have arrived is a matter of
\* timing.
ReadResults(a) ==
  LET data ==
        {[data |-> SubSeq(pending[a], 1, n), err |-> "nil"] :
           n \in 1 .. Min(BufSize, Len(pending[a]))}
      stdinEnd == {[data |-> <<>>, err |-> e] : e \in {"eof", "err"}}
      ptyGone == {[data |-> <<>>, err |-> "err"]}
      ptyClosed == {[data |-> <<>>, err |-> "closed"]}
  IN  IF Reader(a) = "stdin"
        THEN data \cup stdinEnd
        ELSE IF ptmx = "closed"
               THEN ptyClosed
               ELSE data \cup (IF child = "exited" THEN ptyGone ELSE {})

\* NewByteMsg with a buffer one byte short.
NewByteMsgShort(data) == [k \in 1 .. Len(data) - 1 |-> data[k]]

\* NewByteMsg without the copy: the buffer keeps its zero bytes.
NewByteMsgNoCopy(data) == [k \in 1 .. Len(data) |-> "NUL"]

\* NewByteMsg: a buffer of len(data) bytes, and data copied into it.
NewByteMsg(data) == [k \in 1 .. Len(data) |-> data[k]]

\* readerToChannel that reads again after an error that is not the end of
\* the stream.
AdapterReadRetries(a) ==
  /\ Alive
  /\ rdPc[a] = "read"
  /\ \E r \in ReadResults(a) :
       IF r.err # "nil"
         THEN /\ rdPc' = [rdPc EXCEPT
                            ![a] = IF r.err = "err" THEN "read" ELSE "close"]
              /\ srcEnd' = [srcEnd EXCEPT ![a] = r.err]
              /\ source' = [source EXCEPT
                              ![a] = SubSeq(@, 1, Len(@) - Len(pending[a]))]
              /\ pending' = [pending EXCEPT ![a] = <<>>]
              /\ UNCHANGED <<rdMsg, readLog>>
         ELSE /\ rdMsg' = [rdMsg EXCEPT ![a] = NewByteMsg(r.data)]
              /\ rdPc' = [rdPc EXCEPT ![a] = "send"]
              /\ pending' = [pending EXCEPT
                               ![a] = SubSeq(@, Len(r.data) + 1, Len(@))]
              /\ readLog' = [readLog EXCEPT ![a] = Append(@, r.data)]
              /\ UNCHANGED <<srcEnd, source>>
  /\ UNCHANGED <<mainVars, termVars, ptyVars, sigVars, cancelled, chClosed,
                 peerVars, muxVars, outVars, got, libVars>>

\* readerToChannel that reads on while its chunk is not received.
AdapterReadAhead(a) ==
  /\ Alive
  /\ rdPc[a] \in {"read", "send"}
  /\ \E r \in ReadResults(a) :
       IF r.err # "nil"
         THEN /\ rdPc' = [rdPc EXCEPT ![a] = "close"]
              /\ srcEnd' = [srcEnd EXCEPT ![a] = r.err]
              /\ source' = [source EXCEPT
                              ![a] = SubSeq(@, 1, Len(@) - Len(pending[a]))]
              /\ pending' = [pending EXCEPT ![a] = <<>>]
              /\ UNCHANGED <<rdMsg, readLog>>
         ELSE /\ rdMsg' = [rdMsg EXCEPT ![a] = NewByteMsg(r.data)]
              /\ rdPc' = [rdPc EXCEPT ![a] = "send"]
              /\ pending' = [pending EXCEPT
                               ![a] = SubSeq(@, Len(r.data) + 1, Len(@))]
              /\ readLog' = [readLog EXCEPT ![a] = Append(@, r.data)]
              /\ UNCHANGED <<srcEnd, source>>
  /\ UNCHANGED <<mainVars, termVars, ptyVars, sigVars, cancelled, chClosed,
                 peerVars, muxVars, outVars, got, libVars>>

\* readerToChannel that drops its chunk when nobody is receiving.
AdapterReadGivesUp(a) ==
  /\ Alive
  /\ rdPc[a] = "read"
  /\ \E r \in ReadResults(a) :
       IF r.err # "nil"
         THEN /\ rdPc' = [rdPc EXCEPT ![a] = "close"]
              /\ srcEnd' = [srcEnd EXCEPT ![a] = r.err]
              /\ source' = [source EXCEPT
                              ![a] = SubSeq(@, 1, Len(@) - Len(pending[a]))]
              /\ pending' = [pending EXCEPT ![a] = <<>>]
              /\ UNCHANGED <<rdMsg, readLog>>
         ELSE /\ rdMsg' = [rdMsg EXCEPT ![a] = NewByteMsg(r.data)]
              /\ rdPc' = [rdPc EXCEPT
                            ![a] = IF pc = "mux" /\ muxState = "RUNNING"
                                     THEN "send"
                                     ELSE "read"]
              /\ pending' = [pending EXCEPT
                               ![a] = SubSeq(@, Len(r.data) + 1, Len(@))]
              /\ readLog' = [readLog EXCEPT ![a] = Append(@, r.data)]
              /\ UNCHANGED <<srcEnd, source>>
  /\ UNCHANGED <<mainVars, termVars, ptyVars, sigVars, cancelled, chClosed,
                 peerVars, muxVars, outVars, got, libVars>>

\* readerToChannel that writes the operator input to the pty itself.
AdapterReadWritesPty(a) ==
  /\ Alive
  /\ rdPc[a] = "read"
  /\ \E r \in ReadResults(a) :
       IF r.err # "nil"
         THEN /\ rdPc' = [rdPc EXCEPT ![a] = "close"]
              /\ srcEnd' = [srcEnd EXCEPT ![a] = r.err]
              /\ source' = [source EXCEPT
                              ![a] = SubSeq(@, 1, Len(@) - Len(pending[a]))]
              /\ pending' = [pending EXCEPT ![a] = <<>>]
              /\ UNCHANGED <<rdMsg, readLog, ptyIn>>
         ELSE /\ rdMsg' = [rdMsg EXCEPT ![a] = NewByteMsg(r.data)]
              /\ rdPc' = [rdPc EXCEPT
                            ![a] = IF a = "parentIn" THEN "read" ELSE "send"]
              /\ ptyIn' = IF a = "parentIn" /\ ptmx = "open"
                             THEN Append(ptyIn, [src |-> a, data |-> r.data])
                             ELSE ptyIn
              /\ pending' = [pending EXCEPT
                               ![a] = SubSeq(@, Len(r.data) + 1, Len(@))]
              /\ readLog' = [readLog EXCEPT ![a] = Append(@, r.data)]
              /\ UNCHANGED <<srcEnd, source>>
  /\ UNCHANGED <<mainVars, termVars, ptyVars, sigVars, cancelled, chClosed,
                 peerVars, muxVars, termOut, linkSent, got, libVars>>

\* One round of the loop up to the send: n, err := input.Read(buf); on an
\* error break, otherwise c <- NewByteMsg(buf[:n]) is next.  After an error
\* the stream is over: source keeps what it delivered.
AdapterRead(a) ==
  /\ Alive
  /\ rdPc[a] = "read"
  /\ \E r \in ReadResults(a) :
       IF r.err # "nil"
         THEN /\ rdPc' = [rdPc EXCEPT ![a] = "close"]
              /\ srcEnd' = [srcEnd EXCEPT ![a] = r.err]
              /\ source' = [source EXCEPT
                              ![a] = SubSeq(@, 1, Len(@) - Len(pending[a]))]
              /\ pending' = [pending EXCEPT ![a] = <<>>]
              /\ UNCHANGED <<rdMsg, readLog>>
         ELSE /\ rdMsg' = [rdMsg EXCEPT ![a] = NewByteMsg(r.data)]
              /\ rdPc' = [rdPc EXCEPT ![a] = "send"]
              /\ pending' = [pending EXCEPT
                               ![a] = SubSeq(@, Len(r.data) + 1, Len(@))]
              /\ readLog' = [readLog EXCEPT ![a] = Append(@, r.data)]
              /\ UNCHANGED <<srcEnd, source>>
  /\ UNCHANGED <<mainVars, termVars, ptyVars, sigVars, cancelled, chClosed,
                 peerVars, muxVars, outVars, got, libVars>>

\* AdapterClose without the close.
AdapterCloseForgotten(a) ==
  /\ Alive
  /\ rdPc[a] = "close"
  /\ rdPc' = [rdPc EXCEPT ![a] = "done"]
  /\ UNCHANGED <<mainVars, termVars, ptyVars, sigVars, cancelled, rdMsg,
                 chClosed, source, pending, srcEnd, readLog, peerVars,
                 muxVars, outVars, got, libVars>>

\* close(c), after the loop.
AdapterClose(a) ==
  /\ Alive
  /\ rdPc[a] = "close"
  /\ chClosed' = [chClosed EXCEPT ![a] = @ + 1]
  /\ rdPc' = [rdPc EXCEPT ![a] = "done"]
  /\ UNCHANGED <<mainVars, termVars, ptyVars, sigVars, cancelled, rdMsg,
                 source, pending, srcEnd, readLog, peerVars, muxVars,
                 outVars, got, libVars>>

\* The wrapped command exits.
ChildExits ==
  /\ Alive
  /\ child = "running"
  /\ child' = "exited"
  /\ \E code \in {0, 1} : exitCode' = code
  /\ UNCHANGED <<mainVars, termVars, ptmx, sigVars, cancelled, rdVars,
                 peerVars, muxVars, outVars, got, libVars>>

(***************************************************************************)
(* The receive loop of the IPC link (spec.md 4.4).                         *)
(***************************************************************************)
\* ReceiveLoop: decode the next Injected Input message and republish its
\* payload as a chunk; close the channel when the connection is lost.
PeerReceive ==
  /\ Alive
  /\ peerPc = "recv"
  /\ \/ /\ peerLeft > 0
        /\ peerLeft' = peerLeft - 1
        /\ peerMsg' = PeerInput
        /\ peerPc' = "send"
        /\ UNCHANGED <<chClosed, linkBroken>>
     \/ /\ linkBroken' = TRUE
        /\ chClosed' = [chClosed EXCEPT !["remoteIn"] = @ + 1]
        /\ peerPc' = "done"
        /\ UNCHANGED <<peerMsg, peerLeft>>
  /\ UNCHANGED <<mainVars, termVars, ptyVars, sigVars, cancelled, rdPc, rdMsg,
                 source, pending, srcEnd, readLog, muxVars, outVars, got,
                 libVars>>

(***************************************************************************)
(* The multiplexer (spec.md 4.5): one select per step, the chunk received  *)
(* handled in the same step.  The channels are unbuffered, so that a       *)
(* receive is the send of the goroutine at the other end.                  *)
(***************************************************************************)
Selecting == pc = "mux" /\ muxState = "RUNNING"

\* An operator chunk: written verbatim to the pty input.
MuxOperatorChunk ==
  /\ Selecting
  /\ "parentIn" \notin retired
  /\ rdPc["parentIn"] = "send"
  /\ ptyIn' = Append(ptyIn, [src |-> "parentIn", data |-> rdMsg["parentIn"]])
  /\ rdPc' = [rdPc EXCEPT !["parentIn"] = "read"]
  /\ UNCHANGED <<mainVars, termVars, ptyVars, sigVars, cancelled, rdMsg,
                 chClosed, source, pending, srcEnd, readLog, peerVars,
                 muxVars, termOut, linkSent, got, libVars>>

\* A peer chunk: written verbatim to the pty input.
MuxPeerChunk ==
  /\ Selecting
  /\ "remoteIn" \notin retired
  /\ peerPc = "send"
  /\ ptyIn' = Append(ptyIn, [src |-> "remoteIn", data |-> peerMsg])
  /\ peerPc' = "recv"
  /\ UNCHANGED <<mainVars, termVars, ptyVars, sigVars, cancelled, rdVars,
                 peerMsg, peerLeft, linkBroken, muxVars, termOut,
                 linkSent, got, libVars>>

\* A pty-output chunk: written verbatim to the terminal, and a sanitized
\* copy sent on the link (RelayOutput).
MuxPtyChunk ==
  /\ Selecting
  /\ "childOut" \notin retired
  /\ rdPc["childOut"] = "send"
  /\ termOut' = Append(termOut, rdMsg["childOut"])
  /\ linkSent' = Append(linkSent,
                        [kind |-> "relay",
                         data |-> sanitizeTTYData(rdMsg["childOut"])])
  /\ rdPc' = [rdPc EXCEPT !["childOut"] = "read"]
  /\ UNCHANGED <<mainVars, termVars, ptyVars, sigVars, cancelled, rdMsg,
                 chClosed, source, pending, srcEnd, readLog, peerVars,
                 muxVars, ptyIn, got, libVars>>

\* MuxInputClosed that takes the closure for the end of the session.
MuxInputClosedEndsSession(c) ==
  /\ Selecting
  /\ c \notin retired
  /\ chClosed[c] > 0
  /\ retired' = retired \cup {c}
  /\ closedSeen' = [closedSeen EXCEPT ![c] = @ + 1]
  /\ muxState' = "DRAINING"
  /\ exitCause' = "inputClosed"
  /\ UNCHANGED <<mainVars, termVars, ptyVars, sigVars, cancelled, rdVars,
                 peerVars, outVars, got, libVars>>

\* The operator or the peer channel is closed: it is retired, and the
\* session goes on.
MuxInputClosed(c) ==
  /\ Selecting
  /\ c \notin retired
  /\ chClosed[c] > 0
  /\ retired' = retired \cup {c}
  /\ closedSeen' = [closedSeen EXCEPT ![c] = @ + 1]
  /\ UNCHANGED <<mainVars, termVars, ptyVars, sigVars, cancelled, rdVars,
                 peerVars, muxState, exitCause, outVars, got, libVars>>

\* The pty-output channel is closed: the wrapped command is gone.
MuxPtyClosed ==
  /\ Selecting
  /\ "childOut" \notin retired
  /\ chClosed["childOut"] > 0
  /\ retired' = retired \cup {"childOut"}
  /\ closedSeen' = [closedSeen EXCEPT !["childOut"] = @ + 1]
  /\ muxState' = "DRAINING"
  /\ exitCause' = "ptyClosed"
  /\ UNCHANGED <<mainVars, termVars, ptyVars, sigVars, cancelled, rdVars,
                 peerVars, outVars, got, libVars>>

\* The context is done: the loop is left.
MuxCancelled ==
  /\ Selecting
  /\ cancelled
  /\ muxState' = "DRAINING"
  /\ exitCause' = "cancel"
  /\ UNCHANGED <<mainVars, termVars, ptyVars, sigVars, cancelled, rdVars,
                 peerVars, retired, closedSeen, outVars, got, libVars>>

\* DRAINING to TERMINATED: the session is cancelled and the multiplexer
\* returns.  (Nothing is buffered in this model: every send is complete
\* when the step that makes it is.)
MuxTerminate ==
  /\ pc = "mux"
  /\ muxState = "DRAINING"
  /\ muxState' = "TERMINATED"
  /\ cancelled' = TRUE
  /\ UNCHANGED <<mainVars, termVars, ptyVars, sigVars, rdVars, peerVars,
                 retired, exitCause, closedSeen, outVars, got, libVars>>

(***************************************************************************)
(* The specifications.                                                     *)
(***************************************************************************)
Main ==
  \/ WrapStart
  \/ WrapNotify
  \/ WrapInitResize
  \/ WrapMakeRaw
  \/ WrapSpawn
  \/ WrapAnnounce
  \/ WrapReturnNil
  \/ DeferRestore
  \/ DeferSignalStop
  \/ DeferPtmxClose
  \/ WrapReturn

Mux ==
  \/ MuxOperatorChunk
  \/ MuxPeerChunk
  \/ MuxPtyChunk
  \/ MuxInputClosed("parentIn")
  \/ MuxInputClosed("remoteIn")
  \/ MuxPtyClosed
  \/ MuxCancelled
  \/ MuxTerminate

Goroutines ==
  \/ ListenerResize
  \/ ListenerExit
  \/ AdapterRead("parentIn")
  \/ AdapterRead("childOut")
  \/ AdapterClose("parentIn")
  \/ AdapterClose("childOut")
  \/ PeerReceive

Environment ==
  \/ SigWinch
  \/ ForceCancel
  \/ ChildExits

Next == Main \/ Mux \/ Goroutines \/ Environment

Spec == Init /\ [][Next]_vars

\* The scheduler runs wrapCommand and the resize listener whenever they can
\* take a step, and a select picks among its ready cases at random, so that
\* a case that stays ready is taken in the end.  The mode the terminal
\* starts in has no part in what can happen next, and one mode is enough
\* here.
FairInit == Init /\ termMode = "cooked"

FairSpec ==
  /\ FairInit
  /\ [][Next]_vars
  /\ WF_vars(Main)
  /\ WF_vars(MuxPtyClosed)
  /\ WF_vars(MuxCancelled)
  /\ WF_vars(MuxTerminate)
  /\ WF_vars(ListenerResize \/ ListenerExit)

(***************************************************************************)
(* readerToChannel on its own: one adapter reads a finite stream of bytes  *)
(* 1, 2, ... and a consumer receives every chunk.                          *)
(***************************************************************************)
HarnessInit ==
  /\ Quiet
  /\ pc = "harness"
  /\ termMode = "cooked"
  /\ rdPc = [a \in Adapters |-> IF a = "parentIn" THEN "read" ELSE "idle"]
  /\ source = [a \in Adapters |->
                 IF a = "parentIn" THEN [k \in 1 .. MaxSrcLen |-> k] ELSE <<>>]
  /\ pending = source

\* The consumer receives the chunk the adapter is sending.
HarnessRecv ==
  /\ pc = "harness"
  /\ rdPc["parentIn"] = "send"
  /\ got' = Append(got, rdMsg["parentIn"])
  /\ rdPc' = [rdPc EXCEPT !["parentIn"] = "read"]
  /\ UNCHANGED <<mainVars, termVars, ptyVars, sigVars, cancelled, rdMsg,
                 chClosed, source, pending, srcEnd, readLog, peerVars,
                 muxVars, outVars, libVars>>

HarnessNext ==
  \/ AdapterRead("parentIn")
  \/ AdapterClose("parentIn")
  \/ HarnessRecv

SpecAdapter == HarnessInit /\ [][HarnessNext]_vars

(***************************************************************************)
(* sanitizeTTYData on its own: a chunk is sanitized, and the result is     *)
(* sanitized once more.                                                    *)
(***************************************************************************)
\* The characters the short chunks are made of: the pieces of a CSI
\* sequence, a final byte the pattern knows ("m") and one it does not
\* ("S"), and what the filter removes, keeps or replaces.
SanAlphabet == {"ESC", "[", "1", ";", "m", "S", "BEL", "CR", "LF", "TAB", "BAD"}

\* Longer chunks: coloured text, a parameter of five digits, text up to a
\* BEL after a sequence, and a sequence introduced by U+009B.
SanSamples ==
  { <<"ESC", "[", "3", "1", "m", "H", "e", "l", "l", "o",
      "ESC", "[", "0", "m", "TAB", "W", "o", "r", "l", "d", "LF">>,
    <<"ESC", "[", "1", "2", "3", "4", "5", "m">>,
    <<"ESC", "[", "1", "2", "3", "4", ";", "m", "o", "k">>,
    <<"ESC", "[", "m", "S", "BEL">>,
    <<"CSI", "3", "1", "m", "x", "CR", "LF">> }

SanInputs ==
  UNION {[1 .. n -> SanAlphabet] : n \in 0 .. MaxChunkLen} \cup SanSamples

SanInit ==
  /\ NoSession
  /\ CtxIdle
  /\ sanInput \in SanInputs
  /\ clean = <<"none">>
  /\ again = <<"none">>

\* The multiplexer sanitizes a chunk of pty output.
Sanitize ==
  /\ clean = <<"none">>
  /\ clean' = sanitizeTTYData(sanInput)
  /\ UNCHANGED <<mainVars, termVars, ptyVars, sigVars, cancelled, rdVars,
                 peerVars, muxVars, outVars, got, sanInput, again, ctxVars>>

\* The sanitized chunk is sanitized again.
SanitizeAgain ==
  /\ clean # <<"none">>
  /\ again = <<"none">>
  /\ again' = sanitizeTTYData(clean)
  /\ UNCHANGED <<mainVars, termVars, ptyVars, sigVars, cancelled, rdVars,
                 peerVars, muxVars, outVars, got, sanInput, clean, ctxVars>>

SanNext == Sanitize \/ SanitizeAgain

SpecSanitize == SanInit /\ [][SanNext]_vars

(***************************************************************************)
(* The ButterfishCtx: its construction with initLLM, and the lazy          *)
(* initVectorIndex called by several goroutines.  The fields are read and  *)
(* written without a lock, one at a time.                                  *)
(***************************************************************************)
Callers == 1 .. NumCallers

\* The configurations: an OpenAI token or none, an LLM client or none.
Configs == [OpenAIToken : {"", "sk"}, LLMClient : {"nil", "client"}]

initLLM(cfg) ==
  IF cfg.OpenAIToken = "" /\ cfg.LLMClient # "nil"
    THEN [llm |-> "nil", err |-> "either"]
    ELSE IF cfg.OpenAIToken # "" /\ cfg.LLMClient # "nil"
      THEN [llm |-> "nil", err |-> "notBoth"]
      ELSE IF cfg.OpenAIToken # ""
        THEN [llm |-> "GPT", err |-> "nil"]
        ELSE [llm |-> cfg.LLMClient, err |-> "nil"]

\* NewButterfish (not in console mode) or RunConsole (in console mode) is
\* called with some configuration.
CtxInit ==
  /\ NoSession
  /\ SanIdle
  /\ butterfishConfig \in Configs
  /\ ctxPc = "new"
  /\ InConsoleMode \in BOOLEAN
  /\ LLMClient = "nil"
  /\ llmErr = "nil"
  /\ VectorIndex = 0
  /\ built = 0
  /\ loaded = {}
  /\ ivPc = [p \in Callers |-> "idle"]
  /\ ivIndex = [p \in Callers |-> 0]
  /\ ivRet = [p \in Callers |-> <<>>]
  /\ ivSaw = [p \in Callers |-> 0]

\* What the actions on the context leave alone.
NotCtx ==
  <<mainVars, termVars, ptyVars, sigVars, cancelled, rdVars, peerVars,
    muxVars, outVars, got, sanVars>>

\* The constructor calls initLLM and returns its error, or makes the
\* context with the client it returned.
NewButterfish ==
  /\ ctxPc = "new"
  /\ LET r == initLLM(butterfishConfig)
     IN  /\ llmErr' = r.err
         /\ LLMClient' = r.llm
         /\ ctxPc' = IF r.err # "nil" THEN "failed" ELSE "ready"
  /\ UNCHANGED <<NotCtx, butterfishConfig, InConsoleMode, VectorIndex, built,
                 loaded, ivPc, ivIndex, ivRet, ivSaw>>

\* The call of caller p returns r.
IvReturn(p, r, index) ==
  /\ ivPc' = [ivPc EXCEPT ![p] = "idle"]
  /\ ivRet' = [ivRet EXCEPT ![p] = Append(@, r)]
  /\ ivSaw' = [ivSaw EXCEPT ![p] = index]

\* A goroutine calls this.initVectorIndex(pathsToLoad).
IvCall(p) ==
  /\ ctxPc = "ready"
  /\ ivPc[p] = "idle"
  /\ Len(ivRet[p]) < MaxCalls
  /\ ivPc' = [ivPc EXCEPT ![p] = "check"]
  /\ UNCHANGED <<NotCtx, butterfishConfig, ctxPc, LLMClient, llmErr,
                 InConsoleMode, VectorIndex, built, loaded, ivIndex, ivRet,
                 ivSaw>>

\* if this.VectorIndex != nil { return nil }
IvCheck(p) ==
  /\ ivPc[p] = "check"
  /\ IF VectorIndex # 0
       THEN IvReturn(p, "nil", VectorIndex)
       ELSE /\ ivPc' = [ivPc EXCEPT ![p] = "new"]
            /\ UNCHANGED <<ivRet, ivSaw>>
  /\ UNCHANGED <<NotCtx, butterfishConfig, ctxPc, LLMClient, llmErr,
                 InConsoleMode, VectorIndex, built, loaded, ivIndex>>

\* index := embedding.NewDiskCachedEmbeddingIndex(this, out)
IvNew(p) ==
  /\ ivPc[p] = "new"
  /\ built' = built + 1
  /\ ivIndex' = [ivIndex EXCEPT ![p] = built + 1]
  /\ ivPc' = [ivPc EXCEPT ![p] = "set"]
  /\ UNCHANGED <<NotCtx, butterfishConfig, ctxPc, LLMClient, llmErr,
                 InConsoleMode, VectorIndex, loaded, ivRet, ivSaw>>

\* this.VectorIndex = index; in console mode the call returns nil here.
IvSet(p) ==
  /\ ivPc[p] = "set"
  /\ VectorIndex' = ivIndex[p]
  /\ IF InConsoleMode
       THEN IvReturn(p, "nil", ivIndex[p])
       ELSE /\ ivPc' = [ivPc EXCEPT ![p] = "load"]
            /\ UNCHANGED <<ivRet, ivSaw>>
  /\ UNCHANGED <<NotCtx, butterfishConfig, ctxPc, LLMClient, llmErr,
                 InConsoleMode, built, loaded, ivIndex>>

\* err := this.VectorIndex.LoadPaths(this.Ctx, pathsToLoad): it fails, and
\* the call returns the error, or it succeeds, and the call returns nil.
IvLoad(p) ==
  /\ ivPc[p] = "load"
  /\ \/ /\ IvReturn(p, "err", VectorIndex)
        /\ UNCHANGED loaded
     \/ /\ IvReturn(p, "nil", VectorIndex)
        /\ loaded' = loaded \cup {VectorIndex}
  /\ UNCHANGED <<NotCtx, butterfishConfig, ctxPc, LLMClient, llmErr,
                 InConsoleMode, VectorIndex, built, ivIndex>>

initVectorIndex(p) ==
  \/ IvCall(p)
  \/ IvCheck(p)
  \/ IvNew(p)
  \/ IvSet(p)
  \/ IvLoad(p)

CtxNext ==
  \/ NewButterfish
  \/ \E p \in Callers : initVectorIndex(p)

SpecCtx == CtxInit /\ [][CtxNext]_vars

(***************************************************************************)
(* Helpers of the properties.                                              *)
(***************************************************************************)
\* The concatenation of a sequence of chunks.
RECURSIVE Flatten(_)
Flatten(chunks) ==
  IF chunks = <<>> THEN <<>> ELSE Head(chunks) \o Flatten(Tail(chunks))

IsPrefix(s, t) == Len(s) <= Len(t) /\ s = SubSeq(t, 1, Len(s))

CeilDiv(n, b) == (n + b - 1) \div b

IsAnnouncement(m) == m.kind = "announce"
IsRelay(m) == m.kind = "relay"
Announcements == SelectSeq(linkSent, IsAnnouncement)
Relays == SelectSeq(linkSent, IsRelay)

(***************************************************************************)
(* The claims.                                                             *)
(***************************************************************************)
RawEntered == oldState # "none"
Returned == pc = "returned"

\* C1: in a run that switched the terminal to raw mode, however the
\* session ends, term.Restore has been called exactly once when wrapCommand
\* is back in its caller and the terminal is in the mode term.MakeRaw saved;
\* it is never called twice, nor before the multiplexer returns, nor
\* without raw mode.
C1_RestoredExactlyOnce ==
  /\ restoreCount <= 1
  /\ RawEntered /\ Returned
       => restoreCount = 1 /\ termMode = oldState /\ oldState \in TermModes
  /\ RawEntered /\ pc \in {"spawn", "announce", "mux"}
       => restoreCount = 0 /\ termMode = "raw"
  /\ ~RawEntered => restoreCount = 0 /\ termMode \in TermModes

\* The session was cancelled by force after the command had exited with a
\* code other than 0, and wrapCommand is back with the terminal restored.
C1_Witness ==
  /\ Returned
  /\ exitCause = "cancel"
  /\ exitCode = 1
  /\ restoreCount = 1
  /\ termMode = "cbreak"

\* C2: the Announcement is sent exactly once, it is the first message on
\* the link, and no Output Relay message is sent before it.
C2_AnnouncementFirst ==
  /\ Len(Announcements) <= 1
  /\ Relays # <<>> => IsAnnouncement(linkSent[1])
  /\ muxState # "none" => Len(Announcements) = 1 /\ IsAnnouncement(linkSent[1])
  /\ muxState = "none" => linkSent = <<>>

\* The Announcement and, after it, an Output Relay message are on the link.
C2_Witness ==
  /\ Len(linkSent) >= 2
  /\ IsAnnouncement(linkSent[1])
  /\ IsRelay(linkSent[2])

\* C10: when pty.Start fails wrapCommand is back at once with the error and
\* nothing else has happened: no pty, no child, no subscription, no
\* listener, no raw mode, no goroutine, no message, nothing deferred.
C10_StartFailureLeavesNothing ==
  retVal = "err"
    => /\ Returned
       /\ ptmx = "none" /\ child = "none"
       /\ ~subscribed /\ lsnPc = "idle" /\ ch.buf = 0
       /\ ~RawEntered /\ termMode \in TermModes /\ restoreCount = 0
       /\ \A a \in Adapters : rdPc[a] = "idle"
       /\ peerPc = "idle"
       /\ linkSent = <<>> /\ muxState = "none"
       /\ defers = <<>>

\* pty.Start failed and wrapCommand has returned the error.
C10_Witness == Returned /\ retVal = "err"

\* The stream the harness adapter read, and whether the adapter is done.
HarnessSource == source["parentIn"]
HarnessDone == pc = "harness" /\ rdPc["parentIn"] = "done"

\* C3 as stated: a source of N bytes read through a buffer of B bytes is
\* emitted as exactly ceil(N/B) chunks whose concatenation is the source,
\* and the channel is then closed exactly once.
C3_ExactlyCeilChunks ==
  HarnessDone
    => /\ Len(got) = CeilDiv(Len(HarnessSource), BufSize)
       /\ Flatten(got) = HarnessSource
       /\ chClosed["parentIn"] = 1

\* C3, amended: the adapter emits one chunk for each read that returned
\* bytes, each of 1 to B bytes, so at least ceil(N/B) and at most N chunks,
\* whose concatenation in order is the source; the channel is closed once,
\* after the last chunk was received, and not before the stream ended.
C3_ChunksCoverSource ==
  /\ chClosed["parentIn"] <= 1
  /\ pc = "harness" /\ rdPc["parentIn"] # "done" => chClosed["parentIn"] = 0
  /\ pc = "harness" => IsPrefix(Flatten(got), HarnessSource)
  /\ HarnessDone
       => /\ chClosed["parentIn"] = 1
          /\ Flatten(got) = HarnessSource
          /\ got = readLog["parentIn"]
          /\ \A k \in 1 .. Len(got) : Len(got[k]) \in 1 .. BufSize
          /\ Len(got) >= CeilDiv(Len(HarnessSource), BufSize)
          /\ Len(got) <= Len(HarnessSource)

\* A source of 3 bytes came as 3 chunks, where ceil(3/B) is fewer.
C3_Witness ==
  /\ HarnessDone
  /\ Len(HarnessSource) = 3
  /\ Len(got) = 3
  /\ CeilDiv(3, BufSize) < 3
  /\ chClosed["parentIn"] = 1

\* The chunks read from the pty, and the payloads relayed to the peer.
PtyChunks == readLog["childOut"]
Sanitized(chunks) == [k \in 1 .. Len(chunks) |-> sanitizeTTYData(chunks[k])]
RelayData == [k \in 1 .. Len(Relays) |-> Relays[k].data]

\* C4 as stated: when the session becomes TERMINATED, every chunk read
\* from the pty has been relayed, sanitized, once and in order.
C4_AllRelayedAtTermination ==
  [][muxState = "DRAINING" /\ muxState' = "TERMINATED"
       => RelayData' = Sanitized(PtyChunks')]_vars

\* C4, amended: the relayed payloads are at all times the sanitized copies
\* of the first chunks read from the pty, one each and in order (at most
\* the chunk being handed over is missing), the terminal got the same
\* chunks verbatim, and when the session ends because the pty-output
\* channel closed, every chunk read from the pty has been relayed.  A
\* session ended by cancellation may leave the last chunk unrelayed.
C4_RelayedInOrder ==
  /\ Len(Relays) <= Len(PtyChunks)
  /\ Len(PtyChunks) <= Len(Relays) + 1
  /\ RelayData = Sanitized(SubSeq(PtyChunks, 1, Len(Relays)))
  /\ termOut = SubSeq(PtyChunks, 1, Len(termOut))
  /\ Len(termOut) = Len(Relays)
  /\ exitCause = "ptyClosed" => RelayData = Sanitized(PtyChunks)

\* The command printed two chunks and exited; both were relayed, the
\* second without its carriage return, before wrapCommand returned.
C4_Witness ==
  /\ Returned
  /\ exitCause = "ptyClosed"
  /\ PtyChunks = <<<<"h">>, <<"CR">>>>
  /\ RelayData = <<<<"h">>, <<>>>>

\* What the multiplexer wrote to the pty input for one source.
FromOperator(w) == w.src = "parentIn"
FromPeer(w) == w.src = "remoteIn"
Data(writes) == [k \in 1 .. Len(writes) |-> writes[k].data]
OperatorWrites == Data(SelectSeq(ptyIn, FromOperator))
PeerWrites == Data(SelectSeq(ptyIn, FromPeer))

ChildOutClosed == chClosed["childOut"] > 0

\* C6: once the pty-output channel is closed the session ends: it goes
\* from RUNNING through DRAINING to TERMINATED and in no other way, the
\* context is cancelled, the terminal restored, the pty closed, and
\* wrapCommand is back in its caller, whatever the other goroutines do.
C6_ClosureEndsSession ==
  /\ ChildOutClosed
       ~> /\ Returned
          /\ muxState = "TERMINATED"
          /\ cancelled
          /\ restoreCount = 1 /\ termMode = oldState
          /\ ptmx = "closed"
  /\ [][muxState' # muxState
          => <<muxState, muxState'>>
               \in {<<"none", "RUNNING">>, <<"RUNNING", "DRAINING">>,
                    <<"DRAINING", "TERMINATED">>}]_vars

\* wrapCommand is back after the pty-output channel closed, while the
\* operator adapter and the receive loop are still waiting to hand over a
\* chunk.
C6_Witness ==
  /\ Returned
  /\ exitCause = "ptyClosed"
  /\ rdPc["parentIn"] = "send"
  /\ peerPc = "send"
  /\ ptmx = "closed"

\* C7: the closure of the operator or of the peer channel does not end
\* the session: the multiplexer leaves RUNNING only because the pty-output
\* channel closed or the context was cancelled; it sees each channel
\* closed at most once; and with both input channels retired it still takes
\* a pty-output chunk that is ready, as with one retired it takes a chunk
\* of the other.
C7_InputClosureKeepsRunning ==
  /\ muxState \in {"DRAINING", "TERMINATED"}
       => \/ exitCause = "ptyClosed" /\ ChildOutClosed
          \/ exitCause = "cancel" /\ cancelled
  /\ muxState \in {"none", "RUNNING"} => exitCause = "none"
  /\ \A c \in Channels : closedSeen[c] <= 1
  /\ \A c \in retired : closedSeen[c] = 1 /\ chClosed[c] = 1
  /\ Selecting /\ rdPc["childOut"] = "send" => ENABLED MuxPtyChunk
  /\ Selecting /\ "parentIn" \in retired /\ peerPc = "send"
       => ENABLED MuxPeerChunk
  /\ Selecting /\ "remoteIn" \in retired /\ rdPc["parentIn"] = "send"
       => ENABLED MuxOperatorChunk

\* Both input channels are retired, the session is RUNNING, output was
\* relayed and more is ready.
C7_Witness ==
  /\ Selecting
  /\ retired = {"parentIn", "remoteIn"}
  /\ Len(Relays) = 1
  /\ rdPc["childOut"] = "send"
  /\ ~cancelled

\* C8: what wrapCommand returns tells how the command exited: nil for the
\* exit code 0, and not nil for another exit code.
C8_ExitStatusReturned ==
  Returned /\ muxState = "TERMINATED" /\ child = "exited"
    => (retVal = "nil" <=> exitCode = 0)

\* term.MakeRaw failed: the pty was started, raw mode was not entered, and
\* wrapCommand is on its way out.
RawFailed ==
  /\ pc \in {"unwind", "returned", "aborted"}
  /\ ptmx # "none"
  /\ ~RawEntered

\* C9: when term.MakeRaw fails, wrapCommand returns the error to its
\* caller, the process is not aborted, and the session did not start.
C9_RawFailureReturned ==
  RawFailed
    => /\ retVal = "err"
       /\ pc # "aborted"
       /\ \A a \in Adapters : rdPc[a] = "idle"
       /\ peerPc = "idle"
       /\ linkSent = <<>>
       /\ muxState = "none"

(***************************************************************************)
(* The sanitizer.                                                          *)
(***************************************************************************)
Sanitized1 == clean # <<"none">>
Sanitized2 == again # <<"none">>

\* C13: sanitizeTTYData is idempotent: sanitizing the sanitized chunk gives
\* the sanitized chunk again, whatever the chunk was.
C13_Idempotent == Sanitized2 => again = clean

\* An escape sequence broken by a carriage return: the first pass leaves
\* its printable part, and the second pass was made.
C13_Witness ==
  /\ sanInput = <<"ESC", "CR", "[", "m">>
  /\ clean = <<"[", "m">>
  /\ Sanitized2

\* Printable ASCII, newline and tab.
PlainChars ==
  Digits \cup Lower \cup Upper \cup Punct \cup {"LF", "TAB"}

IsPlain(s) == \A k \in 1 .. Len(s) : s[k] \in PlainChars

\* C14: a chunk of printable ASCII, newlines and tabs is returned as it is.
C14_PlainUnchanged == Sanitized1 /\ IsPlain(sanInput) => clean = sanInput

C14_Witness ==
  /\ sanInput = <<"m", "TAB", ";", "LF">>
  /\ clean = sanInput

\* The parameters of a CSI sequence, and its final byte.
CsiParams == Digits \cup {";"}
CsiFinals == Lower \cup Upper

\* The position after the CSI sequence ESC [ parameters final that starts
\* at i, where the final byte is one of `finals` and no parameter has more
\* than `digits` digits; 0 when there is no such sequence at i.
CsiEnd(s, i, finals, digits) ==
  IF i + 1 <= Len(s) /\ s[i] = "ESC" /\ s[i + 1] = "["
    THEN LET j == i + 2 + RunLen(s, i + 2, CsiParams, Len(s))
             short == \A k \in (i + 2) .. (j - 1) :
                         RunLen(s, k, Digits, digits + 1) <= digits
         IN  IF j <= Len(s) /\ s[j] \in finals /\ short THEN j + 1 ELSE 0
    ELSE 0

\* The chunk from i on is text of `text` and such CSI sequences.
RECURSIVE IsCsiText(_, _, _, _, _)
IsCsiText(s, i, text, finals, digits) ==
  IF i > Len(s)
    THEN TRUE
    ELSE IF s[i] \in text
      THEN IsCsiText(s, i + 1, text, finals, digits)
      ELSE LET e == CsiEnd(s, i, finals, digits)
           IN  e # 0 /\ IsCsiText(s, e, text, finals, digits)

\* Its text: the sequences left out, and of the other characters the
\* printable ones, newlines and tabs, in order.
RECURSIVE TextOf(_, _, _, _)
TextOf(s, i, finals, digits) ==
  IF i > Len(s)
    THEN <<>>
    ELSE LET e == CsiEnd(s, i, finals, digits)
         IN  IF e # 0
               THEN TextOf(s, e, finals, digits)
               ELSE (IF s[i] \in PlainChars THEN <<s[i]>> ELSE <<>>)
                      \o TextOf(s, i + 1, finals, digits)

\* Text with its non-printable runes, BEL included.
AnyText == PlainChars \cup {"CR", "BEL"}
\* Text without BEL.
QuietText == PlainChars \cup {"CR"}
\* The final bytes the pattern ends a sequence with.
KnownFinals == CsiFinals \cap FinalByte

NumSources(cfg) ==
  (IF cfg.OpenAIToken # "" THEN 1 ELSE 0)
    + (IF cfg.LLMClient # "nil" THEN 1 ELSE 0)

Constructed == ctxPc \in {"ready", "failed"}

\* C11: initLLM fails exactly when the configuration names no source or
\* both, and with one source it returns the client of that source.
C11_ExactlyOneSource ==
  Constructed
    => /\ llmErr # "nil" <=> NumSources(butterfishConfig) \in {0, 2}
       /\ NumSources(butterfishConfig) = 1
            => LLMClient = IF butterfishConfig.OpenAIToken # ""
                             THEN "GPT"
                             ELSE butterfishConfig.LLMClient

\* The callers whose last call returned nil.
Served == {p \in Callers : ivRet[p] # <<>> /\ ivRet[p][Len(ivRet[p])] = "nil"}

\* C12: whatever the interleaving of the calls of initVectorIndex, one index
\* at most is made, and the callers that were served saw the same index.
C12_OneIndex ==
  /\ built <= 1
  /\ \A p, q \in Served : ivSaw[p] = ivSaw[q]

\* Caller p made every call so far, one after the other.
OnlyCaller(p) ==
  \A q \in Callers \ {p} : ivPc[q] = "idle" /\ ivRet[q] = <<>>

\* A call of p has returned nil.
ReturnedNil(p) == \E k \in 1 .. Len(ivRet[p]) : ivRet[p][k] = "nil"

\* C21: outside console mode, after calls of initVectorIndex made one after
\* the other, a call has returned nil only if LoadPaths has succeeded on the
\* index that is installed; a call after a failed first one does not return
\* nil while nothing is loaded.
C21_SuccessMeansLoaded ==
  \A p \in Callers :
    ~InConsoleMode /\ OnlyCaller(p) /\ ReturnedNil(p)
      => VectorIndex # 0 /\ VectorIndex \in loaded

(***************************************************************************)
(* The chunks between the adapters and the multiplexer.                    *)
(***************************************************************************)
\* The chunks of adapter a the multiplexer has consumed: those of the
\* operator were written to the pty input, those of the pty to the terminal.
Consumed(a) == IF a = "parentIn" THEN OperatorWrites ELSE termOut

\* C16 as stated: no chunk an adapter has read stays unconsumed; once the
\* session is TERMINATED the multiplexer has consumed every chunk read.
C16_EveryChunkConsumed ==
  muxState = "TERMINATED" => \A a \in Adapters : Consumed(a) = readLog[a]

\* C16, amended: the chunks consumed are the first chunks read, once each
\* and in order, and a chunk leaves its adapter only by being received by
\* the running multiplexer, which consumes it in the same step.  A chunk
\* that is not received stays with its adapter, blocked on the send.
C16_ConsumedOnceOrHeld ==
  [][\A a \in Adapters :
       /\ IsPrefix(Consumed(a)', readLog'[a])
       /\ rdPc[a] = "send" /\ rdPc'[a] # "send"
            => /\ Selecting
               /\ Consumed(a)' = Append(Consumed(a), rdMsg[a])]_vars

\* The command exited and wrapCommand has returned; one operator chunk was
\* consumed, and the adapter of the standard input holds the next one,
\* which nobody will receive.
C16_Witness ==
  /\ Returned
  /\ muxState = "TERMINATED"
  /\ exitCause = "ptyClosed"
  /\ Len(Consumed("parentIn")) = 1
  /\ rdPc["parentIn"] = "send"
  /\ Len(readLog["parentIn"]) = 2

\* C17: an adapter stops reading when a read fails, whatever the error, and
\* for no other reason; it then closes its channel, once, and the channel
\* is closed by nothing else.
C17_ErrorLikeEOF ==
  \A a \in Adapters :
    /\ srcEnd[a] # "open" <=> rdPc[a] \in {"close", "done"}
    /\ chClosed[a] = (IF rdPc[a] = "done" THEN 1 ELSE 0)
    /\ closedSeen[a] <= chClosed[a]

\* A read of the standard input failed with an error that is not the end
\* of the stream, after a chunk was read; the channel is closed.
C17_Witness ==
  /\ srcEnd["parentIn"] = "err"
  /\ readLog["parentIn"] # <<>>
  /\ rdPc["parentIn"] = "done"
  /\ chClosed["parentIn"] = 1

\* C18: an adapter has at most one chunk that is read and not consumed, and
\* it has one exactly while it is blocked on the send: it reads again only
\* when the multiplexer has received the chunk.
C18_FlowControl ==
  \A a \in Adapters :
    LET held == Len(readLog[a]) - Len(Consumed(a))
    IN  /\ held \in {0, 1}
        /\ held = 1 <=> rdPc[a] = "send"

\* The first operator chunk was consumed and the adapter holds the second,
\* while the multiplexer runs and more pty output is on its way.
C18_Witness ==
  /\ Selecting
  /\ Len(Consumed("parentIn")) = 1
  /\ rdPc["parentIn"] = "send"
  /\ rdPc["childOut"] = "send"
  /\ Len(readLog["childOut"]) = 2

\* C19: every write to the pty input and every send on the link is a step
\* of the goroutine of wrapCommand, at SendWrappedCommand or inside the
\* running multiplexer, and it is no step of an adapter (no read, no close),
\* of the peer receive loop or of the resize listener.
C19_SingleWriter ==
  [][ptyIn' # ptyIn \/ linkSent' # linkSent
       => /\ pc = "announce" \/ Selecting
          /\ readLog' = readLog
          /\ chClosed' = chClosed
          /\ peerLeft' = peerLeft
          /\ linkBroken' = linkBroken
          /\ lsnPc' = lsnPc
          /\ ch' = ch]_vars

\* The announcement, a relay, and a write of each input source were made.
C19_Witness ==
  /\ Len(Announcements) = 1
  /\ Len(Relays) = 2
  /\ Len(OperatorWrites) = 1
  /\ Len(PeerWrites) = 1

(***************************************************************************)
(* The resize listener.                                                    *)
(***************************************************************************)
\* wrapCommand is over, by a return or by the panic.
Over == pc \in {"returned", "aborted"}
\* signal.Notify was called and the listener started.
ListenerStarted == lsnPc # "idle"

====
